---- MODULE Spec2Model ----
(***************************************************************************)
(* Model of src/python/dynamic_single_block_amr.py: the timestep driver    *)
(* main(), the patch factory gridPatch and the export getAMRGrid /         *)
(* writeAMRGrid.                                                           *)
(*                                                                         *)
(* Lengths.  Every spacing the program computes is dx0 / 2^level and every *)
(* origin is a sum of integer multiples of such spacings, so all of them   *)
(* are exact binary floating point numbers.  The model counts lengths in   *)
(* units of dx0 / refinement_ratio^max_level (the finest spacing), so that *)
(* they are integers: a length of k units is the float k / Scale.          *)
(*                                                                         *)
(* Observation.  max_id_created is the greatest id handed to any patch      *)
(* constructed so far (lines 112 and 142); the program does not store it.  *)
(*                                                                         *)
(* Random source.  random.random() returns a value in [0,1); the model     *)
(* draws k in 0..Resolution-1 standing for k / Resolution.                 *)
(* random.randint(a,b) returns an integer in a..b; the model draws from a  *)
(* sample of a..b that always holds both ends.                             *)
(***************************************************************************)
EXTENDS Integers, Sequences, FiniteSets, TLC

VARIABLES patches, current_level, timestep, action, grid, written, draws, pc,
          max_id_created

vars == <<patches, current_level, timestep, action, grid, written, draws, pc,
          max_id_created>>

(* ---- bounds of the model ---- *)

\* random.random() is sampled as k / Resolution, k in 0..Resolution-1
Resolution == 10

\* random.randint(a,b) is sampled at a, at b and at every OffsetStride-th
\* value in between
OffsetStride == 8

(* ---- program constants ---- *)

nx == 16
ny == 16
refinement_ratio == 2
dx0 == 1
dy0 == 1
ntimesteps == 20
max_level == 5

RECURSIVE Pow(_, _)
Pow(b, e) == IF e <= 0 THEN 1 ELSE b * Pow(b, e - 1)

\* number of length units in 1.0
Scale == Pow(refinement_ratio, max_level)

(* ---- gridPatch ---- *)

\* variant: exponent off by one
Spacing_ExponentOffByOne(d0, level) ==
    (d0 * Scale) \div Pow(refinement_ratio, level + 1)

\* dx0/float(refinement_ratio**level), in length units
Spacing(d0, level) == (d0 * Scale) \div Pow(refinement_ratio, level)

\* gridPatch.__init__; data is the 16x16 array filled with the id,
\* represented by its fill value
gridPatch(id, level, d0x, d0y, origin) ==
    [id |-> id, level |-> level,
     dx |-> Spacing(d0x, level), dy |-> Spacing(d0y, level),
     origin |-> origin, data |-> id]

(* ---- getAMRGrid ---- *)

\* vtkNonOverlappingAMR after Initialize(nlevels, [1,...,1]): one empty block
\* per level; `rejected` collects the levels of SetDataSet calls whose index
\* is outside the container
Initialize(nlevels) ==
    [nlevels |-> nlevels,
     blocks |-> [l \in 0..(nlevels - 1) |-> <<>>],
     rejected |-> {}]

\* variant: level and block index passed in the other order, SetDataSet(0,
\* patch.level, ...); every level has the one block 0
SetDataSet_SwappedIndices(g, patch) ==
    IF 0 \in DOMAIN g.blocks /\ patch.level = 0
    THEN [g EXCEPT !.blocks[0] = Append(@, patch)]
    ELSE [g EXCEPT !.rejected = @ \cup {patch.level}]

\* grid.SetDataSet(patch.level, 0, patch.getVTKGrid())
SetDataSet(g, patch) ==
    IF patch.level \in DOMAIN g.blocks
    THEN [g EXCEPT !.blocks[patch.level] = Append(@, patch)]
    ELSE [g EXCEPT !.rejected = @ \cup {patch.level}]

RECURSIVE SetAll(_, _)
SetAll(g, ps) ==
    IF ps = <<>> THEN g ELSE SetAll(SetDataSet(g, Head(ps)), Tail(ps))

\* variant: the number of levels taken to be the finest level
getAMRGrid_NLevelsIsFinestLevel(gridPatches) ==
    SetAll(Initialize(gridPatches[Len(gridPatches)].level), gridPatches)

getAMRGrid(gridPatches) == SetAll(Initialize(Len(gridPatches)), gridPatches)

(* ---- the random source ---- *)

RandomDraws == 0..(Resolution - 1)

RandintDraws(lo, hi) ==
    {k \in lo..hi : k = lo \/ k = hi \/ (k - lo) % OffsetStride = 0}

\* r > tenths/10 for the draw r = k/Resolution
Exceeds(k, tenths) == k * 10 > tenths * Resolution

(* ---- main ---- *)

NoGrid == Initialize(0)

Last(s) == s[Len(s)]

\* variant: inclusive bound on the depth
RefineGuard_Inclusive(r, level) == Exceeds(r, 2) /\ level <= max_level

\* line 128
RefineGuard(r, level) == Exceeds(r, 2) /\ level < max_level

\* variant: inclusive threshold on the draw
RemoveGuard_Inclusive(r, level) == r * 10 >= Resolution /\ level > 0

\* variant: no test of the depth
RemoveGuard_NoDepthTest(r, level) == Exceeds(r, 1)

\* variant: removal only for draws in (0.1, 0.2]
RemoveGuard_BandOnly(r, level) ==
    Exceeds(r, 1) /\ ~Exceeds(r, 2) /\ level > 0

\* line 145
RemoveGuard(r, level) == Exceeds(r, 1) /\ level > 0

\* variant: offsets range over the whole parent, 0..nx and 0..ny
new_origin_WholeParent(parent, a, b) ==
    <<parent.origin[1] + 2 * a * parent.dx, parent.origin[2] + 2 * b * parent.dy>>

\* variant: the two offset draws used in the other order
new_origin_Swapped(parent, a, b) ==
    <<parent.origin[1] + b * parent.dx, parent.origin[2] + a * parent.dy>>

\* variant: offsets drawn from 1..nx/2+1 and 1..ny/2+1
new_origin_OneCellFurther(parent, a, b) ==
    <<parent.origin[1] + (a + 1) * parent.dx,
      parent.origin[2] + (b + 1) * parent.dy>>

\* lines 133-139; a, b are the two randint results in call order
new_origin(parent, a, b) ==
    <<parent.origin[1] + a * parent.dx, parent.origin[2] + b * parent.dy>>

\* variant: the file named by the loop index itself
FileIndex_LoopIndex(t) == t

\* variant: the parent's id passed on unchanged
NextId_ParentId(ps) == Last(ps).id

\* variant: the id taken from the 1-based count of patches after the add
NextId_Count(ps) == Len(ps) + 1

\* line 142: patches[-1].id+1
NextId(ps) == Last(ps).id + 1

\* line 153: "amr_%i.vtm" % (timestep+1)
FileIndex(t) == t + 1

Init ==
    /\ current_level = 0
    /\ patches = <<gridPatch(0, 0, dx0, dy0, <<0, 0>>)>>
    /\ timestep = 0
    /\ action = 0
    /\ grid = NoGrid
    /\ written = <<>>
    /\ draws = <<>>
    /\ max_id_created = 0
    /\ pc = "initial_export"

\* variant: the first file named amr_1.vtm
InitialExport_Index1 ==
    /\ pc = "initial_export"
    /\ grid' = getAMRGrid(patches)
    /\ written' = Append(written, 1)
    /\ pc' = "step"
    /\ UNCHANGED <<patches, current_level, timestep, action, draws, max_id_created>>

\* lines 115-119
InitialExport ==
    /\ pc = "initial_export"
    /\ grid' = getAMRGrid(patches)
    /\ written' = Append(written, 0)
    /\ pc' = "step"
    /\ UNCHANGED <<patches, current_level, timestep, action, draws, max_id_created>>

\* lines 125-142, the refine branch
Refine(r, a, b) ==
    /\ pc = "step"
    /\ RefineGuard(r, current_level)
    /\ action' = r
    /\ current_level' = current_level + 1
    /\ patches' = Append(patches,
                     gridPatch(NextId(patches), current_level + 1,
                               dx0, dy0, new_origin(Last(patches), a, b)))
    /\ max_id_created' = IF NextId(patches) > max_id_created
                         THEN NextId(patches) ELSE max_id_created
    /\ draws' = <<[call |-> "random", value |-> r],
                  [call |-> "randint", value |-> a],
                  [call |-> "randint", value |-> b]>>
    /\ pc' = "export"
    /\ UNCHANGED <<timestep, grid, written>>

\* variant: the depth is decremented but the patch is kept
Remove_KeepsPatch(r) ==
    /\ pc = "step"
    /\ ~RefineGuard(r, current_level)
    /\ RemoveGuard(r, current_level)
    /\ action' = r
    /\ current_level' = current_level - 1
    /\ draws' = <<[call |-> "random", value |-> r]>>
    /\ pc' = "export"
    /\ UNCHANGED <<patches, timestep, grid, written, max_id_created>>

\* variant: del patches[0] in place of del patches[-1]
Remove_DeletesCoarsest(r) ==
    /\ pc = "step"
    /\ ~RefineGuard(r, current_level)
    /\ RemoveGuard(r, current_level)
    /\ action' = r
    /\ current_level' = current_level - 1
    /\ patches' = Tail(patches)
    /\ draws' = <<[call |-> "random", value |-> r]>>
    /\ pc' = "export"
    /\ UNCHANGED <<timestep, grid, written, max_id_created>>

\* lines 125-148, the remove branch
Remove(r) ==
    /\ pc = "step"
    /\ ~RefineGuard(r, current_level)
    /\ RemoveGuard(r, current_level)
    /\ action' = r
    /\ current_level' = current_level - 1
    /\ patches' = SubSeq(patches, 1, Len(patches) - 1)
    /\ draws' = <<[call |-> "random", value |-> r]>>
    /\ pc' = "export"
    /\ UNCHANGED <<timestep, grid, written, max_id_created>>

\* lines 125-148, neither branch taken
NoChange(r) ==
    /\ pc = "step"
    /\ ~RefineGuard(r, current_level)
    /\ ~RemoveGuard(r, current_level)
    /\ action' = r
    /\ draws' = <<[call |-> "random", value |-> r]>>
    /\ pc' = "export"
    /\ UNCHANGED <<patches, current_level, timestep, grid, written, max_id_created>>

\* variant: the loop runs over range(0, ntimesteps+1)
Export_OneIterationMore ==
    /\ pc = "export"
    /\ grid' = getAMRGrid(patches)
    /\ written' = Append(written, FileIndex(timestep))
    /\ timestep' = timestep + 1
    /\ pc' = IF timestep + 1 < ntimesteps + 1 THEN "step" ELSE "done"
    /\ UNCHANGED <<patches, current_level, action, draws, max_id_created>>

\* lines 150-153 and the loop increment of line 121
Export ==
    /\ pc = "export"
    /\ grid' = getAMRGrid(patches)
    /\ written' = Append(written, FileIndex(timestep))
    /\ timestep' = timestep + 1
    /\ pc' = IF timestep + 1 < ntimesteps THEN "step" ELSE "done"
    /\ UNCHANGED <<patches, current_level, action, draws, max_id_created>>

Next ==
    \/ InitialExport
    \/ \E r \in RandomDraws :
         \E a \in RandintDraws(0, nx \div 2), b \in RandintDraws(0, ny \div 2) :
            Refine(r, a, b)
    \/ \E r \in RandomDraws : Remove(r)
    \/ \E r \in RandomDraws : NoChange(r)
    \/ Export

Spec == Init /\ [][Next]_vars

(* ======================= properties ======================= *)

\* the step just taken removed the finest patch: the container built by the
\* previous export still has one level more than the patch list
JustRemoved == pc = "export" /\ grid.nlevels = Len(patches) + 1

\* the step just taken added a patch
JustAdded == pc = "export" /\ grid.nlevels = Len(patches) - 1

\* C1: initially and after any sequence of timesteps the refinement depth
\* current_level lies in 0..max_level.
C1_DepthWithinBounds == current_level \in 0..max_level

\* a step taken at depth max_level with a draw above 0.2: the refine guard
\* refused because of the bound, and the step removed instead
C1_Witness ==
    /\ JustRemoved
    /\ current_level = max_level - 1
    /\ Exceeds(action, 2)

\* C2: in every reachable state the patch list holds exactly current_level+1
\* patches and the patch at list position i (from 0) has level i.
C2_OnePatchPerLevel ==
    /\ Len(patches) = current_level + 1
    /\ \A i \in 1..Len(patches) : patches[i].level = i - 1

C2_Witness == JustRemoved /\ current_level >= 2 /\ timestep >= max_level

\* C3: a timestep with draw r at depth d ends at depth d+1 with one patch
\* appended if r > 0.2 and d < max_level; otherwise at depth d-1 with the
\* finest patch deleted if r > 0.1 and d > 0; otherwise at depth d with the
\* hierarchy unchanged.
C3_Transition ==
    [][pc = "step" =>
        IF Exceeds(action', 2) /\ current_level < max_level
        THEN /\ current_level' = current_level + 1
             /\ Len(patches') = Len(patches) + 1
             /\ SubSeq(patches', 1, Len(patches)) = patches
        ELSE IF Exceeds(action', 1) /\ current_level > 0
        THEN /\ current_level' = current_level - 1
             /\ patches' = SubSeq(patches, 1, Len(patches) - 1)
        ELSE /\ current_level' = current_level
             /\ patches' = patches]_vars

\* a draw in (0.1, 0.2] at depth > 0 has removed the finest patch
C3_Witness == JustRemoved /\ Exceeds(action, 1) /\ ~Exceeds(action, 2)

\* the origin of child lies in [parent.origin, parent.origin + extent) in
\* both dimensions, the extent being nx*dx by ny*dy
OriginWithin(child, parent) ==
    /\ parent.origin[1] <= child.origin[1]
    /\ child.origin[1] < parent.origin[1] + nx * parent.dx
    /\ parent.origin[2] <= child.origin[2]
    /\ child.origin[2] < parent.origin[2] + ny * parent.dy

\* C4: every patch of level >= 1 has its origin inside the extent of the
\* patch one level below it, which was the finest patch when it was added.
C4_OriginInsideParent ==
    \A i \in 2..Len(patches) : OriginWithin(patches[i], patches[i - 1])

\* a full chain in which the finest patch was added with the largest offset
\* draws nx/2 and ny/2
C4_Witness ==
    /\ JustAdded
    /\ Len(patches) = max_level + 1
    /\ draws[2].value = nx \div 2
    /\ draws[3].value = ny \div 2

\* C5: every patch in the hierarchy has a level L in 0..max_level and cell
\* spacing dx0 / refinement_ratio^L, dy0 / refinement_ratio^L.
C5_SpacingByLevel ==
    \A i \in 1..Len(patches) :
        /\ patches[i].level \in 0..max_level
        /\ patches[i].dx * Pow(refinement_ratio, patches[i].level) = dx0 * Scale
        /\ patches[i].dy * Pow(refinement_ratio, patches[i].level) = dy0 * Scale

\* the finest level re-created after at least one removal
C5_Witness ==
    /\ JustAdded
    /\ current_level = max_level
    /\ timestep >= max_level + 2

\* C6 as stated: the export performed in timestep t writes the file of index
\* t, so that N timesteps produce N files.
C6_FileIndexIsTimestep ==
    /\ [][pc = "export" => written' = Append(written, timestep)]_vars
    /\ [](pc = "done" => Len(written) = ntimesteps)

\* C6 amended: one file of index 0 is written before the first timestep, the
\* export performed in timestep t (counted from 0) writes the file of index
\* t+1, and N timesteps produce the N+1 files of index 0..N.
C6_FileIndexIsTimestepPlusOne ==
    /\ [][pc = "initial_export" => written' = <<0>>]_vars
    /\ [][pc = "export" => written' = Append(written, timestep + 1)]_vars
    /\ [](pc = "done" => written = [i \in 1..(ntimesteps + 1) |-> i - 1])

C6_Witness == pc = "done" /\ Len(written) = ntimesteps + 1

\* C7: no two exports write the same file name; files are written in
\* increasing index order, one index after the other; a step changes the
\* hierarchy only after the previous export has completed, and an export
\* changes nothing of the hierarchy.
C7_SequentialUniqueExports ==
    /\ [](\A i, j \in 1..Len(written) : i < j => written[i] < written[j])
    /\ [][written' # written =>
            /\ patches' = patches /\ current_level' = current_level
            /\ (written # <<>> => written' = Append(written, Last(written) + 1))
         ]_vars
    /\ [][patches' # patches =>
            /\ written' = written
            /\ written # <<>> /\ Last(written) = timestep]_vars

\* the hierarchy has changed in a timestep after the first, before its export
C7_Witness ==
    /\ pc = "export"
    /\ timestep >= 2
    /\ grid.nlevels # Len(patches)
    /\ Last(written) = timestep

\* C8: the container built by every export has exactly current_level+1
\* levels, every level 0..current_level received exactly one dataset, the
\* patch of that level, and no dataset was set outside the container.
C8_ExportHoldsWholeHierarchy ==
    pc \in {"step", "done"} =>
        /\ grid.nlevels = current_level + 1
        /\ DOMAIN grid.blocks = 0..current_level
        /\ \A l \in 0..current_level : grid.blocks[l] = <<patches[l + 1]>>
        /\ grid.rejected = {}

\* an export of the full chain, after a timestep
C8_Witness ==
    /\ pc = "step"
    /\ timestep >= 1
    /\ grid.nlevels = max_level + 1
    /\ grid.blocks[max_level] = <<Last(patches)>>

\* C10: a timestep consumes one decision draw, followed by two integer
\* offset draws in 0..nx/2 and 0..ny/2, used for x then y, exactly when the
\* step adds a patch; other steps consume no further draw.
C10_DrawsPerStep ==
    [][pc = "step" =>
        /\ Len(draws') >= 1
        /\ draws'[1] = [call |-> "random", value |-> action']
        /\ IF Len(patches') = Len(patches) + 1
           THEN /\ Len(draws') = 3
                /\ draws'[2].call = "randint"
                /\ draws'[2].value \in 0..(nx \div 2)
                /\ draws'[3].call = "randint"
                /\ draws'[3].value \in 0..(ny \div 2)
                /\ Last(patches').origin[1] =
                     Last(patches).origin[1] + draws'[2].value * Last(patches).dx
                /\ Last(patches').origin[2] =
                     Last(patches).origin[2] + draws'[3].value * Last(patches).dy
           ELSE Len(draws') = 1]_vars

\* an add whose two offset draws differ
C10_Witness ==
    /\ JustAdded
    /\ Len(draws) = 3
    /\ draws[2].value # draws[3].value

\* C11 as stated: every newly created patch receives an id greater than the
\* id of every patch created before it.
C11_IdsIncreaseOverRun ==
    [][Len(patches') = Len(patches) + 1 =>
          Last(patches').id > max_id_created]_vars

\* C11 amended: every newly created patch receives the id of the finest
\* patch before the step plus one, which is greater than the id of every
\* patch in the hierarchy at that time; the ids of removed patches are not
\* counted and are handed out again.
C11_IdsIncreaseAlongHierarchy ==
    [][Len(patches') = Len(patches) + 1 =>
          /\ Last(patches').id = Last(patches).id + 1
          /\ \A i \in 1..Len(patches) : Last(patches').id > patches[i].id
      ]_vars

\* a patch added after a patch with a greater id had been created
C11_Witness ==
    /\ JustAdded
    /\ Last(patches).id < max_id_created
    /\ \A i \in 1..(Len(patches) - 1) : patches[i].id < Last(patches).id

\* statements left to execute before the end of main(), counting a step
\* and an export for every timestep still to run
Rank ==
    IF pc = "initial_export" THEN 2 * ntimesteps + 1
    ELSE IF pc = "step" THEN 2 * (ntimesteps - timestep)
    ELSE IF pc = "export" THEN 2 * (ntimesteps - timestep) - 1
    ELSE 0

\* C12: the driver stops after exactly ntimesteps iterations for every
\* sequence of draws and in no other way: every statement executed lowers
\* the natural number Rank by one, so that no run is longer than
\* 2*ntimesteps+1 statements; until the end is reached a next statement
\* exists (an execution that is never suspended therefore reaches the end);
\* the end is reached only with all ntimesteps iterations done; and a step
\* never finds the patch list empty.
C12_TerminatesAfterAllTimesteps ==
    /\ [](Rank \in 0..(2 * ntimesteps + 1))
    /\ [][Rank' = Rank - 1]_vars
    /\ [](pc # "done" => ENABLED Next)
    /\ [](pc = "done" <=> Rank = 0)
    /\ [](pc = "done" => timestep = ntimesteps /\ Len(written) = ntimesteps + 1)
    /\ [](pc = "step" => patches # <<>> /\ timestep < ntimesteps)

\* the end of the run, with a hierarchy that has been refined
C12_Witness == pc = "done" /\ timestep = ntimesteps /\ current_level >= 1

\* C13: every patch in the hierarchy after a step, the patch created by that
\* step included, is contained in the export of that timestep; a patch is
\* discarded only by a step, one patch at a time, the finest, whose level is
\* the depth before the step, and only after the last export has held it.
C13_PatchExportedBeforeDiscard ==
    /\ [][pc = "export" =>
            /\ patches' = patches
            /\ \A i \in 1..Len(patches) :
                  /\ (i - 1) \in DOMAIN grid'.blocks
                  /\ grid'.blocks[i - 1] = <<patches[i]>>]_vars
    /\ [][Len(patches') < Len(patches) =>
            /\ pc = "step"
            /\ patches' = SubSeq(patches, 1, Len(patches) - 1)
            /\ Last(patches).level = current_level
            /\ current_level' = current_level - 1
            /\ written # <<>>
            /\ current_level \in DOMAIN grid.blocks
            /\ grid.blocks[current_level] = <<Last(patches)>>]_vars

\* a patch of level >= 1 has just been discarded and the last export,
\* written in an earlier timestep, holds it
C13_Witness ==
    /\ JustRemoved
    /\ timestep >= 2
    /\ Last(written) = timestep
    /\ grid.blocks[Len(patches)] # <<>>
    /\ grid.blocks[Len(patches)][1].level = Len(patches)

\* C14: an add leaves every patch that existed before unchanged, a remove
\* leaves every patch but the finest unchanged, any other step leaves the
\* list and the depth unchanged; the first patch is always the level-0 base
\* patch with id 0 and origin (0,0) built at initialisation.
C14_TailOnlyMutation ==
    /\ [](/\ patches # <<>>
          /\ patches[1] = gridPatch(0, 0, dx0, dy0, <<0, 0>>))
    /\ [][/\ Len(patches') > Len(patches) =>
                patches' = Append(patches, Last(patches'))
          /\ Len(patches') < Len(patches) =>
                patches' = SubSeq(patches, 1, Len(patches) - 1)
          /\ Len(patches') = Len(patches) =>
                patches' = patches /\ current_level' = current_level]_vars

\* the hierarchy has shrunk back to the base patch alone
C14_Witness == JustRemoved /\ Len(patches) = 1 /\ timestep >= 1

\* C15: at depth 0 no draw removes a patch; a draw in (0.1, 0.2] removes the
\* finest patch if the depth is > 0 and changes nothing at depth 0; a draw
\* <= 0.1 changes nothing at any depth.
C15_NoRemovalAtDepthZero ==
    [][pc = "step" =>
        /\ current_level = 0 => Len(patches') >= Len(patches)
        /\ (Exceeds(action', 1) /\ ~Exceeds(action', 2)) =>
              IF current_level > 0
              THEN /\ patches' = SubSeq(patches, 1, Len(patches) - 1)
                   /\ current_level' = current_level - 1
              ELSE patches' = patches /\ current_level' = current_level
        /\ ~Exceeds(action', 1) =>
              patches' = patches /\ current_level' = current_level]_vars

\* a draw in (0.1, 0.2] at depth 0, in a timestep after the first, has left
\* the base patch alone
C15_Witness ==
    /\ pc = "export"
    /\ timestep >= 1
    /\ grid.nlevels = 1
    /\ Len(patches) = 1
    /\ current_level = 0
    /\ Exceeds(action, 1) /\ ~Exceeds(action, 2)

\* C16: at depth max_level every draw r > 0.1, a draw r > 0.2 included,
\* removes the finest patch, and a draw r <= 0.1 changes nothing: the depth
\* stays max_level across a step exactly when r <= 0.1.
C16_RemovalAtMaxLevel ==
    [][(pc = "step" /\ current_level = max_level) =>
         /\ Exceeds(action', 1) =>
               /\ patches' = SubSeq(patches, 1, Len(patches) - 1)
               /\ current_level' = max_level - 1
         /\ ~Exceeds(action', 1) =>
               patches' = patches /\ current_level' = max_level
         /\ (current_level' = max_level) <=> ~Exceeds(action', 1)]_vars

\* the greatest draw has removed the finest patch of a full chain
C16_Witness ==
    /\ JustRemoved
    /\ grid.nlevels = max_level + 1
    /\ action = Resolution - 1

\* C17: every patch of level >= 1 ends at or before the far edge of the
\* patch one level below it in both dimensions (its extent is nx*dx by
\* ny*dy), and every patch lies inside the base patch's extent
\* [0, nx*dx0] x [0, ny*dy0].
C17_ChildInsideParent ==
    /\ \A i \in 2..Len(patches) :
          /\ patches[i].origin[1] + nx * patches[i].dx
                <= patches[i - 1].origin[1] + nx * patches[i - 1].dx
          /\ patches[i].origin[2] + ny * patches[i].dy
                <= patches[i - 1].origin[2] + ny * patches[i - 1].dy
    /\ \A i \in 1..Len(patches) :
          /\ 0 <= patches[i].origin[1]
          /\ patches[i].origin[1] + nx * patches[i].dx <= nx * dx0 * Scale
          /\ 0 <= patches[i].origin[2]
          /\ patches[i].origin[2] + ny * patches[i].dy <= ny * dy0 * Scale

\* a full chain in which every patch was added with the largest offsets, so
\* that the finest patch ends exactly at the base patch's far corner
C17_Witness ==
    /\ Len(patches) = max_level + 1
    /\ Last(patches).origin[1] + nx * Last(patches).dx = nx * dx0 * Scale
    /\ Last(patches).origin[2] + ny * Last(patches).dy = ny * dy0 * Scale

\* C18: the patch at list position i (from 0) has id i, so ids are distinct
\* and increase with the level; an add after a remove hands out the id the
\* removed patch had.
C18_IdEqualsLevel ==
    /\ \A i \in 1..Len(patches) :
          patches[i].id = i - 1 /\ patches[i].id = patches[i].level
    /\ max_id_created >= Last(patches).id

\* a patch has just been added with an id that an earlier, removed patch had
C18_Witness ==
    /\ JustAdded
    /\ Last(patches).id = Len(patches) - 1
    /\ max_id_created > Last(patches).id
    /\ timestep >= 3
====
